---- MODULE Spec2Model ----
(***************************************************************************)
(* Model of packages/vite-plugin/src/index.ts (vanillaExtractPlugin).      *)
(*                                                                         *)
(* Strings are sequences of tokens.  A token is a run of characters that   *)
(* no searched pattern (virtualPrefix, virtualExt, '?', a quote, a         *)
(* backslash) straddles, so indexOf and slice on token sequences agree     *)
(* with the JavaScript operations on the characters they stand for.        *)
(***************************************************************************)
EXTENDS Integers, Sequences, FiniteSets, Bags, TLC

\* ------------------------------------------------------------------ bounds

\* Number of compiler invocations (client transforms) in one behaviour.
MaxCompiles == 2

\* ------------------------------------------------------------- characters

DQ == "\""
SQ == "'"
BS == "\\"

\* Tokens that stand for exactly one character.
SingleChar == {"a", "b", "?", SQ, DQ, BS}

\* A multi-character token without its last character.
Chop(t) ==
  CASE t = ".css" -> ".cs"
    [] t = ".ts" -> ".t"
    [] t = ".js" -> ".j"
    [] t = ".vanilla" -> ".vanill"
    [] t = "used" -> "use"
    [] t = "$$$" -> "$$"
    [] t = "pkg" -> "pk"
    [] t = "/r/" -> "/r"
    [] t = "virtual:vanilla-extract:" -> "virtual:vanilla-extract"
    [] OTHER -> t

Min(S) == CHOOSE x \in S : \A y \in S : x <= y

\* String.prototype.indexOf: 0-based position of the first occurrence, or -1.
IndexOf(s, p) ==
  LET hits == {i \in 0..(Len(s) - Len(p)) : SubSeq(s, i + 1, i + Len(p)) = p}
  IN IF hits = {} THEN -1 ELSE Min(hits)

\* The string without its last character.
DropLastChar(s) ==
  IF s = <<>> THEN <<>>
  ELSE IF s[Len(s)] \in SingleChar THEN SubSeq(s, 1, Len(s) - 1)
  ELSE SubSeq(s, 1, Len(s) - 1) \o <<Chop(s[Len(s)])>>

\* String.prototype.slice(start, end) for a start on a token boundary and an
\* end that is a token boundary or -1 (one character before the end).
Slice(s, start, end) ==
  IF end >= 0 THEN SubSeq(s, start + 1, end)
  ELSE LET t == DropLastChar(s) IN SubSeq(t, start + 1, Len(t))

\* String.prototype.substring(0, end)
Substring0(s, end) == SubSeq(s, 1, end)

RECURSIVE JsonEscape(_)
\* The body of JSON.stringify(string): quotes and backslashes are escaped.
JsonEscape(s) ==
  IF s = <<>> THEN <<>>
  ELSE (IF Head(s) \in {DQ, BS} THEN <<BS, Head(s)>> ELSE <<Head(s)>>)
         \o JsonEscape(Tail(s))

\* JSON.stringify of a string
JsonString(s) == <<DQ>> \o JsonEscape(s) \o <<DQ>>

RECURSIVE ScanLiteral(_, _, _, _)
\* Scan a JavaScript string literal opened by quote q: i is the position
\* after the opening quote.  Yields the string denoted and the position
\* after the closing quote, or ok = FALSE for an unterminated literal.
ScanLiteral(text, q, i, acc) ==
  IF i > Len(text) THEN [ok |-> FALSE, value |-> acc, next |-> i]
  ELSE IF text[i] = q THEN [ok |-> TRUE, value |-> acc, next |-> i + 1]
  ELSE IF text[i] = BS
    THEN IF i + 1 > Len(text)
           THEN [ok |-> FALSE, value |-> acc, next |-> i]
           ELSE ScanLiteral(text, q, i + 2, Append(acc, text[i + 1]))
  ELSE ScanLiteral(text, q, i + 1, Append(acc, text[i]))

\* The literal starting at position i of a program text.
ReadLiteral(text, i) ==
  IF i > Len(text) \/ text[i] \notin {DQ, SQ}
    THEN [ok |-> FALSE, value |-> <<>>, next |-> i]
    ELSE ScanLiteral(text, text[i], i + 1, <<>>)

\* ------------------------------------------------------- module constants

\* const styleUpdateEvent = (fileId) => `vanilla-extract-style-update:${fileId}`
styleUpdateEvent(fileId) == <<"vanilla-extract-style-update:">> \o fileId

virtualPrefix == <<"virtual:vanilla-extract:">>

ExtJs == <<".vanilla", ".js">>
ExtCss == <<".vanilla", ".css">>

\* ------------------------------------------------------------ collaborators

\* stringifyFileScope of @vanilla-extract/integration
stringifyFileScope(fileScope) ==
  IF fileScope.packageName = <<>> THEN fileScope.filePath
  ELSE fileScope.filePath \o <<"$$$">> \o fileScope.packageName

\* parseFileScope of @vanilla-extract/integration
parseFileScope(s) ==
  LET i == IndexOf(s, <<"$$$">>)
  IN IF i = -1 THEN [filePath |-> s, packageName |-> <<>>]
     ELSE [filePath |-> SubSeq(s, 1, i), packageName |-> SubSeq(s, i + 2, Len(s))]

\* JSON.stringify of a file scope object
JsonFileScope(fs) ==
  <<"{", DQ, "filePath", DQ, ":">> \o JsonString(fs.filePath)
    \o (IF fs.packageName = <<>> THEN <<>>
        ELSE <<",", DQ, "packageName", DQ, ":">> \o JsonString(fs.packageName))
    \o <<"}">>

EndsWith(s, p) == Len(s) >= Len(p) /\ SubSeq(s, Len(s) - Len(p) + 1, Len(s)) = p

\* cssFileFilter.test(id): /\.css\.(js|mjs|jsx|ts|tsx)(\?used)?$/
cssFileFilter(id) ==
  \E e \in {".ts", ".js"} :
    \/ EndsWith(id, <<".css", e>>)
    \/ EndsWith(id, <<".css", e, "?", "used">>)

\* normalizePath(path.relative(from, to)) for a file below the directory
relative(from, to) ==
  IF Len(to) >= Len(from) /\ SubSeq(to, 1, Len(from)) = from
    THEN SubSeq(to, Len(from) + 1, Len(to))
    ELSE <<"..">> \o to

\* addFileScope({source, filePath, packageInfo}).source
addFileScope(source, filePath, pkg) ==
  <<"setFileScope(">> \o JsonString(filePath) \o <<",">> \o JsonString(pkg.name)
    \o <<");">> \o source \o <<"endFileScope();">>

\* getPackageInfo(config.root)
getPackageInfo(root) == [dirname |-> root, name |-> <<"pkg">>]

\* ------------------------------------------------------------------ inputs

Root == <<"/r/">>

\* Style files of the project, a dependency and a file that is no style file.
F1 == Root \o <<"a", ".css", ".ts">>
F2 == Root \o <<"a", ".vanilla", ".css", ".ts">>
Dep == Root \o <<"b", ".ts">>
Plain == Root \o <<"a", ".ts">>

\* The module ids the host hands to transform.
TransformIds == {F1, F2 \o <<"?", "used">>, Plain}

\* The raw source text handed to transform.
Codes == {<<"x">>, <<"y">>}

\* File scopes the compiler reports.
Sa == [filePath |-> <<"a", ".css", ".ts">>, packageName |-> <<>>]
Sv == [filePath |-> <<"a", ".vanilla", ".css", ".ts">>, packageName |-> <<"pkg">>]
Sq == [filePath |-> <<"b", SQ, ".css", ".ts">>, packageName |-> <<>>]

Scopes == {Sa, Sv, Sq}

CssTexts == {<<".a{color:red}">>, <<".a{content:", DQ, "}">>}

\* The scopes whose CSS the evaluation of a compiled file yields, in order:
\* one fragment per logical scope, the file's own and those it imports.
ScopeLists(validId) ==
  IF validId = F1 THEN {<<Sa, Sq>>}
  ELSE IF validId = F2 THEN {<<Sv>>}
  ELSE {<<>>}

\* The compiler's watchFiles for a file: bare paths, the file itself included.
WatchLists(validId) == {<<Dep, validId>>}

RECURSIVE FragmentLists(_)
\* Every assignment of a CSS text to the scopes of a list.
FragmentLists(sl) ==
  IF sl = <<>> THEN {<<>>}
  ELSE {<<[fileScope |-> Head(sl), source |-> c]>> \o rest :
          c \in CssTexts, rest \in FragmentLists(Tail(sl))}

\* compile({filePath, cwd}) resolves with {source, watchFiles}.  The generated
\* JS is represented by the CSS fragments that evaluating it yields.
CompileResults(validId) ==
  {[source |-> f, watchFiles |-> w] :
     f \in UNION {FragmentLists(sl) : sl \in ScopeLists(validId)},
     w \in WatchLists(validId)}

\* The configurations explored: the plugin's option with the command and
\* mode the host resolves.
Configurations ==
  {[identifiers |-> "none", command |-> "serve", mode |-> "development"],
   [identifiers |-> "debug", command |-> "serve", mode |-> "production"],
   [identifiers |-> "none", command |-> "build", mode |-> "production"],
   [identifiers |-> "short", command |-> "build", mode |-> "development"]}

\* ------------------------------------------------------------------- state

VARIABLES
  identifiers,  \* the plugin option: "none", "short" or "debug"
  config,       \* the resolved config, NoConfig before configResolved
  packageInfo,  \* getPackageInfo(config.root), NoPackageInfo before
  server,       \* whether the dev server handle is set
  virtualExt,   \* the virtual module extension
  cssMap,       \* the CSS registry: FlatScopeId -> CSS text
  moduleGraph,  \* host: the module ids the dev server's module graph holds
  invalidated,  \* host: the moduleGraph.invalidateModule calls of the most
                \* recent run of the code after `await compile`, in order
  broadcasts,   \* host: the server.ws.send payloads of that run, in order
  watched,      \* host: the files that run registered through addWatchFile
  pending,      \* the ids of the transforms suspended at `await compile`
  compileCalls, \* number of compiler invocations so far
  last,         \* the most recent step after startup and what it returned
  fin,          \* the most recent run of the code after `await compile`
  client        \* host: a browser that requests the virtual module of a scope

vars == <<identifiers, config, packageInfo, server, virtualExt, cssMap,
          moduleGraph, invalidated, broadcasts, watched, pending,
          compileCalls, last, fin, client>>

NoConfig == [command |-> "unset", mode |-> "unset", root |-> <<>>]
NoPackageInfo == [dirname |-> <<>>, name |-> <<>>]
EmptyMap == [k \in {} |-> <<>>]

NoCall == [op |-> "none", id |-> <<>>, code |-> <<>>, ssr |-> FALSE,
           res |-> [kind |-> "none", body |-> <<>>]]

NoFin == [id |-> <<>>, validId |-> <<>>, source |-> <<>>,
          watchFiles |-> <<>>, k |-> 0, ok |-> FALSE, identOption |-> "none",
          repeat |-> FALSE]

\* The browser before it requests a virtual module.
NoClient == [phase |-> "none", scope |-> <<>>, shim |-> <<>>, channel |-> <<>>,
             css |-> <<"nothing">>, heard |-> <<>>]

Init ==
  /\ identifiers \in {c.identifiers : c \in Configurations}
  /\ config = NoConfig
  /\ packageInfo = NoPackageInfo
  /\ server = FALSE
  /\ virtualExt = <<"undefined">>
  /\ cssMap = EmptyMap
  /\ moduleGraph = {}
  /\ invalidated = <<>>
  /\ broadcasts = <<>>
  /\ watched = <<>>
  /\ pending = EmptyBag
  /\ compileCalls = 0
  /\ last = NoCall
  /\ fin = NoFin
  /\ client = NoClient

\* The host runs resolveId, load and transform once the configuration is
\* resolved and, in a dev server, once configureServer has run.
Ready == config # NoConfig /\ (config.command = "serve" => server)

\* -------------------------------------------------------- lifecycle hooks

\* Mutant: the two variants are swapped.
ExtFor_Swapped(command) ==
  <<".vanilla">> \o (IF command = "serve" THEN <<".css">> ELSE <<".js">>)

\* virtualExt = `.vanilla.${config.command === 'serve' ? 'js' : 'css'}`
ExtFor(command) == <<".vanilla">> \o (IF command = "serve" THEN <<".js">> ELSE <<".css">>)

configResolved(command, mode) ==
  /\ config = NoConfig
  /\ config' = [command |-> command, mode |-> mode, root |-> Root]
  /\ virtualExt' = ExtFor(command)
  /\ packageInfo' = getPackageInfo(Root)
  /\ UNCHANGED <<client, identifiers, server, cssMap, moduleGraph, invalidated,
                 broadcasts, watched, pending, compileCalls, last, fin>>

\* The host calls configureServer when it creates a dev server (command serve).
configureServer ==
  /\ config # NoConfig
  /\ config.command = "serve"
  /\ ~server
  /\ server' = TRUE
  /\ UNCHANGED <<client, identifiers, config, packageInfo, virtualExt, cssMap,
                 moduleGraph, invalidated, broadcasts, watched, pending,
                 compileCalls, last, fin>>

\* ---------------------------------------------------------------- resolver

StartsWithPrefix(id) == IndexOf(id, virtualPrefix) = 0

\* Mutant: the prefix is accepted anywhere in the id (indexOf(...) !== -1).
ResolveIdResult_Anywhere(id) ==
  IF IndexOf(id, virtualPrefix) # -1 THEN [kind |-> "id", body |-> id]
  ELSE [kind |-> "undefined", body |-> <<>>]

ResolveIdResult(id) ==
  IF StartsWithPrefix(id) THEN [kind |-> "id", body |-> id]
  ELSE [kind |-> "undefined", body |-> <<>>]

resolveId(id) ==
  /\ Ready
  /\ last' = [op |-> "resolveId", id |-> id, code |-> <<>>, ssr |-> FALSE,
               res |-> ResolveIdResult(id)]
  /\ UNCHANGED <<client, identifiers, config, packageInfo, server, virtualExt, cssMap,
                 moduleGraph, invalidated, broadcasts, watched, pending,
                 compileCalls, fin>>

\* id.slice(virtualPrefix.length, id.indexOf(virtualExt))
fileScopeIdOf(id) == Slice(id, Len(virtualPrefix), IndexOf(id, virtualExt))

\* The injection shim of load (the outdent template).
Shim(fileScopeId, css) ==
  <<"import { injectStyles } from '@vanilla-extract/css/injectStyles';",
    "const inject = (css) => injectStyles({ fileScope: ">>
    \o JsonFileScope(parseFileScope(fileScopeId))
    \o <<", css });", "inject(">> \o JsonString(css) \o <<");",
         "import.meta.hot.on(", SQ>>
    \o styleUpdateEvent(fileScopeId)
    \o <<SQ, ", (css) => { inject(css); });">>

\* Mutant: the test for a missing entry is left out.
LoadResult_NoCheck(id) ==
  IF StartsWithPrefix(id)
    THEN LET fileScopeId == fileScopeIdOf(id)
             css == IF fileScopeId \in DOMAIN cssMap THEN cssMap[fileScopeId]
                    ELSE <<"undefined">>
         IN IF ~server THEN [kind |-> "css", body |-> css]
            ELSE [kind |-> "shim", body |-> Shim(fileScopeId, css)]
    ELSE [kind |-> "null", body |-> <<>>]

LoadResult(id) ==
  IF StartsWithPrefix(id)
    THEN LET fileScopeId == fileScopeIdOf(id)
         IN IF fileScopeId \notin DOMAIN cssMap
              THEN [kind |-> "throw",
                    body |-> <<"Unable to locate ">> \o fileScopeId \o <<" in the CSS map.">>]
            ELSE IF ~server
              THEN [kind |-> "css", body |-> cssMap[fileScopeId]]
            ELSE [kind |-> "shim", body |-> Shim(fileScopeId, cssMap[fileScopeId])]
    ELSE [kind |-> "null", body |-> <<>>]

\* Mutant: load registers an empty entry for a scope it does not find.
load_FillsMissing(id) ==
  /\ Ready
  /\ last' = [op |-> "load", id |-> id, code |-> <<>>, ssr |-> FALSE,
               res |-> LoadResult(id)]
  /\ cssMap' = IF StartsWithPrefix(id) /\ fileScopeIdOf(id) \notin DOMAIN cssMap
                 THEN [x \in DOMAIN cssMap \cup {fileScopeIdOf(id)} |->
                        IF x \in DOMAIN cssMap THEN cssMap[x] ELSE <<>>]
                 ELSE cssMap
  /\ UNCHANGED <<client, identifiers, config, packageInfo, server, virtualExt,
                 moduleGraph, invalidated, broadcasts, watched, pending,
                 compileCalls, fin>>

load(id) ==
  /\ Ready
  /\ last' = [op |-> "load", id |-> id, code |-> <<>>, ssr |-> FALSE,
               res |-> LoadResult(id)]
  /\ UNCHANGED <<client, identifiers, config, packageInfo, server, virtualExt, cssMap,
                 moduleGraph, invalidated, broadcasts, watched, pending,
                 compileCalls, fin>>

\* --------------------------------------------------------------- transform

\* const index = id.indexOf('?'); index === -1 ? id : id.substring(0, index)
validIdOf(id) ==
  LET index == IndexOf(id, <<"?">>)
  IN IF index = -1 THEN id ELSE Substring0(id, index)

\* Mutant: the ssr flag is not looked at.
TransformBranch_IgnoresSsr(id, ssr) ==
  IF ~cssFileFilter(id) THEN "skip" ELSE "client"

\* The path transform takes up to its first suspension: "skip" for a file
\* that is no style file, "ssr" for the server-rendering branch, "client" for
\* the compiler invocation.
TransformBranch(id, ssr) ==
  IF ~cssFileFilter(id) THEN "skip"
  ELSE IF ssr THEN "ssr"
  ELSE "client"

\* transform(code, id, ssr) up to its first suspension.
transform(code, id, ssr) ==
  /\ Ready
  /\ LET branch == TransformBranch(id, ssr)
     IN CASE branch = "skip" ->
               /\ last' = [op |-> "transform", id |-> id, code |-> code, ssr |-> ssr,
                           res |-> [kind |-> "null", body |-> <<>>]]
               /\ UNCHANGED <<pending, compileCalls>>
          [] branch = "ssr" ->
               /\ last' = [op |-> "transform", id |-> id, code |-> code, ssr |-> ssr,
                           res |-> [kind |-> "js",
                                    body |-> addFileScope(code,
                                               relative(packageInfo.dirname, validIdOf(id)),
                                               packageInfo)]]
               /\ UNCHANGED <<pending, compileCalls>>
          [] OTHER ->
               /\ compileCalls < MaxCompiles
               /\ compileCalls' = compileCalls + 1
               /\ pending' = pending (+) SetToBag({id})
               /\ last' = [op |-> "transform", id |-> id, code |-> code, ssr |-> ssr,
                           res |-> [kind |-> "pending", body |-> <<>>]]
  /\ UNCHANGED <<client, identifiers, config, packageInfo, server, virtualExt, cssMap,
                 moduleGraph, invalidated, broadcasts, watched, fin>>

\* Mutant: the file itself is skipped whatever the command.
ShouldWatch_NeverSelf(file, id) == file # id

\* config.command === 'build' || file !== id
ShouldWatch(file, id) == config.command = "build" \/ file # id

\* The files the loop over watchFiles hands to this.addWatchFile, in order.
WatchLoop(watchFiles, id) == SelectSeq(watchFiles, LAMBDA file : ShouldWatch(file, id))

\* Mutant: the configured override is not looked at.
identOption_IgnoresOverride ==
  IF config.mode = "production" THEN "short" ELSE "debug"

\* identifiers ?? (config.mode === 'production' ? 'short' : 'debug')
identOption ==
  IF identifiers # "none" THEN identifiers
  ELSE IF config.mode = "production" THEN "short" ELSE "debug"

\* `${virtualPrefix}${fileId}${virtualExt}`
VirtualId(fileId) == virtualPrefix \o fileId \o virtualExt

\* Mutant: the comparison with the registered CSS text is left out.
CssChanged_NoCompare(map, fileId, source) == server /\ fileId \in DOMAIN map

\* Mutant: the comparison with the registered CSS text is inverted.
CssChanged_Inverted(map, fileId, source) ==
  server /\ fileId \in DOMAIN map /\ map[fileId] = source

\* Mutant: the test for an existing entry is left out (get yields undefined).
CssChanged_NoHas(map, fileId, source) ==
  server /\ (fileId \notin DOMAIN map \/ map[fileId] # source)

\* Mutant: the comparison is with any entry of the registry, not with the
\* entry of the scope.
CssChanged_AnyEntry(map, fileId, source) ==
  server /\ \E f \in DOMAIN map : map[f] # source

\* server && cssMap.has(fileId) && cssMap.get(fileId) !== source
CssChanged(map, fileId, source) ==
  server /\ fileId \in DOMAIN map /\ map[fileId] # source

\* Mutant: an existing entry is kept (the first write wins).
MapSet_KeepFirst(map, fileId, source) ==
  [x \in DOMAIN map \cup {fileId} |-> IF x \in DOMAIN map THEN map[x] ELSE source]

\* cssMap.set(fileId, source)
MapSet(map, fileId, source) ==
  [x \in DOMAIN map \cup {fileId} |-> IF x = fileId THEN source ELSE map[x]]

\* Mutant: the broadcast of a changed CSS text is sent and the registry write
\* is left for later.
serializeVirtualCssPath_SendOnly(st, fileScope, source) ==
  LET fileId == stringifyFileScope(fileScope)
      id == VirtualId(fileId)
      changed == CssChanged(st.cssMap, fileId, source)
  IN [cssMap |-> IF changed THEN st.cssMap ELSE MapSet(st.cssMap, fileId, source),
      invalidated |-> IF changed /\ id \in moduleGraph
                        THEN Append(st.invalidated, id) ELSE st.invalidated,
      broadcasts |-> IF changed
                       THEN Append(st.broadcasts,
                                   [type |-> "custom", event |-> styleUpdateEvent(fileId),
                                    data |-> source])
                       ELSE st.broadcasts,
      out |-> st.out \o <<"import ", DQ>> \o id \o <<DQ, ";">>]

\* The callback handed to processVanillaFile, run for one fragment.  st holds
\* the registry, the calls made on the server and the import statements
\* returned so far.
serializeVirtualCssPath(st, fileScope, source) ==
  LET fileId == stringifyFileScope(fileScope)
      id == VirtualId(fileId)
      changed == CssChanged(st.cssMap, fileId, source)
  IN [cssMap |-> MapSet(st.cssMap, fileId, source),
      invalidated |-> IF changed /\ id \in moduleGraph
                        THEN Append(st.invalidated, id) ELSE st.invalidated,
      broadcasts |-> IF changed
                       THEN Append(st.broadcasts,
                                   [type |-> "custom", event |-> styleUpdateEvent(fileId),
                                    data |-> source])
                       ELSE st.broadcasts,
      out |-> st.out \o <<"import ", DQ>> \o id \o <<DQ, ";">>]

RECURSIVE processVanillaFile(_, _, _)
\* processVanillaFile: the callback runs once per CSS fragment of the source,
\* in order; k is the number of fragments reached before the finalizer ends
\* (all of them) or fails (fewer).
processVanillaFile(st, source, k) ==
  IF k = 0 THEN st
  ELSE processVanillaFile(
         serializeVirtualCssPath(st, Head(source).fileScope, Head(source).source),
         Tail(source), k - 1)

Range(f) == {f[i] : i \in DOMAIN f}

\* Mutant: a run whose finalization fails puts the registry back as it was.
compileResolved_Rollback(id, r, k) ==
  /\ BagIn(id, pending)
  /\ LET validId == validIdOf(id)
         added == WatchLoop(r.watchFiles, id)
         ok == k = Len(r.source)
         st == processVanillaFile(
                 [cssMap |-> cssMap, invalidated |-> <<>>,
                  broadcasts |-> <<>>, out |-> <<>>], r.source, k)
     IN /\ pending' = pending (-) SetToBag({id})
        /\ watched' = added
        /\ cssMap' = IF ok THEN st.cssMap ELSE cssMap
        /\ invalidated' = st.invalidated
        /\ broadcasts' = st.broadcasts
        /\ fin' = [id |-> id, validId |-> validId, source |-> r.source,
                   watchFiles |-> r.watchFiles, k |-> k, ok |-> ok,
                   identOption |-> identOption,
                   repeat |-> fin.ok /\ fin.validId = validId /\ fin.source = r.source]
        /\ last' = [op |-> "compileResolved", id |-> id, code |-> <<>>, ssr |-> FALSE,
                    res |-> IF ok THEN [kind |-> "js", body |-> st.out \o <<"exports">>]
                            ELSE [kind |-> "throw", body |-> <<"finalizer error">>]]
  /\ UNCHANGED <<client, identifiers, config, packageInfo, server, virtualExt,
                 moduleGraph, compileCalls>>

\* The compiler resolves: the rest of transform runs without suspension.
compileResolved(id, r, k) ==
  /\ BagIn(id, pending)
  /\ LET validId == validIdOf(id)
         added == WatchLoop(r.watchFiles, id)
         ok == k = Len(r.source)
         st == processVanillaFile(
                 [cssMap |-> cssMap, invalidated |-> <<>>,
                  broadcasts |-> <<>>, out |-> <<>>], r.source, k)
     IN /\ pending' = pending (-) SetToBag({id})
        /\ watched' = added
        /\ cssMap' = st.cssMap
        /\ invalidated' = st.invalidated
        /\ broadcasts' = st.broadcasts
        /\ fin' = [id |-> id, validId |-> validId, source |-> r.source,
                   watchFiles |-> r.watchFiles, k |-> k, ok |-> ok,
                   identOption |-> identOption,
                   repeat |-> fin.ok /\ fin.validId = validId /\ fin.source = r.source]
        /\ last' = [op |-> "compileResolved", id |-> id, code |-> <<>>, ssr |-> FALSE,
                    res |-> IF ok THEN [kind |-> "js", body |-> st.out \o <<"exports">>]
                            ELSE [kind |-> "throw", body |-> <<"finalizer error">>]]
  /\ UNCHANGED <<client, identifiers, config, packageInfo, server, virtualExt,
                 moduleGraph, compileCalls>>

\* Mutant: a failed compiler invocation is tried again.
compileRejected_Retry(id) ==
  /\ BagIn(id, pending)
  /\ compileCalls < MaxCompiles
  /\ compileCalls' = compileCalls + 1
  /\ last' = [op |-> "compileRejected", id |-> id, code |-> <<>>, ssr |-> FALSE,
              res |-> [kind |-> "pending", body |-> <<>>]]
  /\ UNCHANGED <<client, identifiers, config, packageInfo, server, virtualExt, cssMap,
                 moduleGraph, invalidated, broadcasts, watched, pending, fin>>

\* The compiler rejects: transform rejects with the compiler's error.
compileRejected(id) ==
  /\ BagIn(id, pending)
  /\ pending' = pending (-) SetToBag({id})
  /\ last' = [op |-> "compileRejected", id |-> id, code |-> <<>>, ssr |-> FALSE,
              res |-> [kind |-> "throw", body |-> <<"compiler error">>]]
  /\ UNCHANGED <<client, identifiers, config, packageInfo, server, virtualExt, cssMap,
                 moduleGraph, invalidated, broadcasts, watched, compileCalls, fin>>

\* Host: the dev server's import analysis enters the virtual module of a
\* registered scope into the module graph.
ensureEntry(fileId) ==
  /\ server
  /\ fileId \in DOMAIN cssMap
  /\ VirtualId(fileId) \notin moduleGraph
  /\ moduleGraph' = moduleGraph \cup {VirtualId(fileId)}
  /\ last' = [op |-> "ensureEntry", id |-> VirtualId(fileId), code |-> <<>>,
              ssr |-> FALSE, res |-> [kind |-> "none", body |-> <<>>]]
  /\ UNCHANGED <<client, identifiers, config, packageInfo, server, virtualExt, cssMap,
                 invalidated, broadcasts, watched, pending, compileCalls, fin>>

\* ------------------------------------------------------------ specification

FlatScopeIds == {stringifyFileScope(s) : s \in Scopes}

\* The ids the host hands to resolveId: a virtual module id, a file path and
\* an id that holds the prefix after its start.
ResolveIds ==
  {virtualPrefix \o <<"a", ".css", ".ts">> \o ExtCss, F1,
   <<"a">> \o virtualPrefix \o <<"a", ".css", ".ts">> \o ExtCss}

\* The ids the host hands to load: the virtual module ids the transforms emit
\* for the scopes (registered or not yet), an id with no extension and a file
\* path.
LoadIds ==
  {virtualPrefix \o f \o virtualExt : f \in FlatScopeIds}
    \cup {virtualPrefix \o <<"a", ".css", ".ts", "b">>, F1}

Next ==
  \/ \E c \in Configurations :
       c.identifiers = identifiers /\ configResolved(c.command, c.mode)
  \/ configureServer
  \/ \E id \in ResolveIds : resolveId(id)
  \/ \E id \in LoadIds : load(id)
  \/ \E code \in Codes, id \in TransformIds, ssr \in BOOLEAN : transform(code, id, ssr)
  \/ \E id \in TransformIds : \E r \in CompileResults(validIdOf(id)) :
       \E k \in 0..Len(r.source) : compileResolved(id, r, k)
  \/ \E id \in TransformIds : compileRejected(id)
  \/ \E fileId \in FlatScopeIds : ensureEntry(fileId)

Spec == Init /\ [][Next]_vars

\* ------------------------------------------------------------ the browser

\* The injection shim as the client's JavaScript engine reads it: the
\* arguments of its immediate inject calls and the event names it subscribes
\* to.  A text that is no well-formed program makes no call and subscribes to
\* nothing.
ShimProgram(text) ==
  LET a == IndexOf(text, <<", css });">>) + 1
      lit1 == ReadLiteral(text, a + 2)
      lit2 == ReadLiteral(text, lit1.next + 2)
      valid == /\ a >= 3
               /\ Len(text) >= a + 1
               /\ text[a + 1] = "inject("
               /\ lit1.ok
               /\ lit1.next + 1 <= Len(text)
               /\ text[lit1.next] = ");"
               /\ text[lit1.next + 1] = "import.meta.hot.on("
               /\ lit2.ok
               /\ lit2.next = Len(text)
               /\ text[lit2.next] = ", (css) => { inject(css); });"
  IN [valid |-> valid,
      injects |-> IF valid THEN <<lit1.value>> ELSE <<>>,
      subscriptions |-> IF valid THEN <<lit2.value>> ELSE <<>>]

\* Host: the dev server answers the browser's request for the virtual module
\* of a registered scope with what load has just returned.
clientFetch(fileId) ==
  /\ client.phase = "none"
  /\ server
  /\ fileId \in DOMAIN cssMap
  /\ last.op = "load"
  /\ last.id = VirtualId(fileId)
  /\ last.res.kind = "shim"
  /\ client' = [client EXCEPT !.phase = "fetched", !.scope = fileId,
                              !.shim = last.res.body]
  /\ UNCHANGED <<identifiers, config, packageInfo, server, virtualExt, cssMap,
                 moduleGraph, invalidated, broadcasts, watched, pending,
                 compileCalls, last, fin>>

\* Host: the browser evaluates the module it was served: the immediate inject
\* call, then import.meta.hot.on.  No broadcast sent before the subscription
\* reaches the listener.
clientEvaluate ==
  /\ client.phase = "fetched"
  /\ LET program == ShimProgram(client.shim)
     IN client' = [client EXCEPT
                     !.phase = "subscribed",
                     !.css = IF program.injects # <<>>
                               THEN program.injects[Len(program.injects)] ELSE @,
                     !.channel = IF program.subscriptions # <<>>
                                   THEN program.subscriptions[1] ELSE @,
                     !.heard = broadcasts]
  /\ UNCHANGED <<identifiers, config, packageInfo, server, virtualExt, cssMap,
                 moduleGraph, invalidated, broadcasts, watched, pending,
                 compileCalls, last, fin>>

\* Host: the browser's listener runs for the broadcasts of a run on its
\* channel, in order: (css) => { inject(css); }
clientReceive ==
  /\ client.phase = "subscribed"
  /\ client.heard # broadcasts
  /\ LET mine == SelectSeq(broadcasts, LAMBDA b : b.event = client.channel)
     IN client' = [client EXCEPT
                     !.css = IF mine # <<>> THEN mine[Len(mine)].data ELSE @,
                     !.heard = broadcasts]
  /\ UNCHANGED <<identifiers, config, packageInfo, server, virtualExt, cssMap,
                 moduleGraph, invalidated, broadcasts, watched, pending,
                 compileCalls, last, fin>>

\* The browser has heard every broadcast sent since it subscribed.
ClientIdle == client.phase = "subscribed" => client.heard = broadcasts

\* The dev-server configurations, and a project whose style file has one
\* scope, requested by the host with the query suffix.
ClientConfigurations == {c \in Configurations : c.command = "serve"}
ClientTransformIds == {F2 \o <<"?", "used">>, Plain}

InitClient == Init /\ identifiers \in {c.identifiers : c \in ClientConfigurations}

\* The plugin in a dev server with one browser.  A broadcast reaches a
\* subscribed browser before the plugin's next step.
NextClient ==
  \/ \E c \in ClientConfigurations :
       c.identifiers = identifiers /\ configResolved(c.command, c.mode)
  \/ configureServer
  \/ \E id \in ResolveIds : ClientIdle /\ resolveId(id)
  \/ \E id \in LoadIds : ClientIdle /\ load(id)
  \/ \E code \in Codes, id \in ClientTransformIds, ssr \in BOOLEAN :
       ClientIdle /\ transform(code, id, ssr)
  \/ \E id \in ClientTransformIds : \E r \in CompileResults(validIdOf(id)) :
       \E k \in 0..Len(r.source) : ClientIdle /\ compileResolved(id, r, k)
  \/ \E id \in ClientTransformIds : ClientIdle /\ compileRejected(id)
  \/ \E fileId \in FlatScopeIds : ClientIdle /\ ensureEntry(fileId)
  \/ \E fileId \in FlatScopeIds : clientFetch(fileId)
  \/ clientEvaluate
  \/ clientReceive

SpecClient == InitClient /\ [][NextClient]_vars

\* ------------------------------------------------------------------ claims

\* The step is the run of transform's code after `await compile` resolved.
Resumed == last'.op = "compileResolved" /\ pending' # pending

\* The FlatScopeId of the i-th fragment a run was handed.
FragmentId(run, i) == stringifyFileScope(run.source[i].fileScope)

\* The sends of a log on the channel of a scope.
SendsFor(log, fileId) ==
  {i \in DOMAIN log : log[i].event = <<"vanilla-extract-style-update:">> \o fileId}

\* The invalidations of a log of the virtual module of a scope.
InvalidationsFor(log, fileId) ==
  {i \in DOMAIN log : log[i] = <<"virtual:vanilla-extract:">> \o fileId \o virtualExt}

\* C1 as stated: with a dev server attached, a run that registers a fragment
\* for a scope whose registry entry exists with a different CSS text makes
\* exactly one invalidation and exactly one broadcast for that scope, the
\* broadcast carrying the new CSS text, and none for a scope of the same file
\* whose CSS is unchanged.
C1_ExactlyOneInvalidation ==
  [][Resumed =>
      \A i \in 1..fin'.k :
        LET fileId == FragmentId(fin', i)
            css == fin'.source[i].source
        IN /\ (server /\ fileId \in DOMAIN cssMap /\ cssMap[fileId] # css) =>
                /\ Cardinality(SendsFor(broadcasts', fileId)) = 1
                /\ \A j \in SendsFor(broadcasts', fileId) : broadcasts'[j].data = css
                /\ Cardinality(InvalidationsFor(invalidated', fileId)) = 1
           /\ (fileId \in DOMAIN cssMap /\ cssMap[fileId] = css) =>
                /\ SendsFor(broadcasts', fileId) = {}
                /\ InvalidationsFor(invalidated', fileId) = {}]_vars

\* C1 as amended: under the same conditions exactly one broadcast fires for
\* the scope, carrying the new CSS text; exactly one invalidation fires for it
\* if the module graph holds the scope's virtual module and none if it does
\* not; and neither fires for a scope of the same file whose CSS is unchanged.
C1_ChangeDetection ==
  [][Resumed =>
      \A i \in 1..fin'.k :
        LET fileId == FragmentId(fin', i)
            css == fin'.source[i].source
            inGraph == <<"virtual:vanilla-extract:">> \o fileId \o virtualExt \in moduleGraph
        IN /\ (server /\ fileId \in DOMAIN cssMap /\ cssMap[fileId] # css) =>
                /\ Cardinality(SendsFor(broadcasts', fileId)) = 1
                /\ \A j \in SendsFor(broadcasts', fileId) : broadcasts'[j].data = css
                /\ Cardinality(InvalidationsFor(invalidated', fileId))
                     = (IF inGraph THEN 1 ELSE 0)
           /\ (fileId \in DOMAIN cssMap /\ cssMap[fileId] = css) =>
                /\ SendsFor(broadcasts', fileId) = {}
                /\ InvalidationsFor(invalidated', fileId) = {}]_vars

\* C1 witness: a run over two fragments with a dev server attached changed
\* the CSS of one scope, whose module the graph held, and not of the other.
C1_Witness ==
  /\ server
  /\ last.op = "compileResolved"
  /\ fin.k = 2
  /\ Len(broadcasts) = 1
  /\ Len(invalidated) = 1
  /\ \E i \in 1..2 :
       /\ broadcasts[1].event = styleUpdateEvent(FragmentId(fin, i))
       /\ broadcasts[1].data = fin.source[i].source
       /\ invalidated[1] = VirtualId(FragmentId(fin, i))

\* C2: when a run was handed the same file and the same fragments as the
\* completed run right before it, it leaves the registry as that run left it
\* and makes no broadcast and no invalidation.
C2_Idempotence ==
  [][(Resumed /\ fin.ok /\ fin'.validId = fin.validId /\ fin'.source = fin.source) =>
       /\ cssMap' = cssMap
       /\ broadcasts' = <<>>
       /\ invalidated' = <<>>]_vars

\* C2 witness: with a dev server attached and the scopes' modules in the
\* graph, a file has been transformed twice in a row with the same fragments.
C2_Witness ==
  /\ server
  /\ last.op = "compileResolved"
  /\ fin.ok
  /\ fin.repeat
  /\ \A i \in 1..fin.k : VirtualId(FragmentId(fin, i)) \in moduleGraph

\* C3: only a run after `await compile` emits broadcasts and invalidations,
\* and each one it emits is for a fragment it was handed while a dev server
\* was attached and the registry held a different CSS text for that scope.
C3_EmittedOnlyOnChange ==
  [][/\ (~Resumed => UNCHANGED <<broadcasts, invalidated>>)
     /\ (Resumed =>
           /\ \A j \in DOMAIN broadcasts' :
                /\ server
                /\ \E i \in 1..fin'.k :
                     /\ broadcasts'[j].event
                          = <<"vanilla-extract-style-update:">> \o FragmentId(fin', i)
                     /\ broadcasts'[j].data = fin'.source[i].source
                     /\ FragmentId(fin', i) \in DOMAIN cssMap
                     /\ cssMap[FragmentId(fin', i)] # fin'.source[i].source
           /\ \A j \in DOMAIN invalidated' :
                /\ server
                /\ \E i \in 1..fin'.k :
                     /\ invalidated'[j]
                          = <<"virtual:vanilla-extract:">> \o FragmentId(fin', i) \o virtualExt
                     /\ FragmentId(fin', i) \in DOMAIN cssMap
                     /\ cssMap[FragmentId(fin', i)] # fin'.source[i].source)]_vars

\* C3 witness: the first run of all registered scopes with a dev server
\* attached and emitted nothing.
C3_Witness ==
  /\ server
  /\ last.op = "compileResolved"
  /\ compileCalls = 1
  /\ pending = EmptyBag
  /\ fin.k >= 1
  /\ broadcasts = <<>>
  /\ invalidated = <<>>

\* C4: load of an id that starts with the reserved prefix and whose scope,
\* the text load extracts from it, the registry does not hold, fails with an
\* error and leaves the registry as it was.
C4_LookupSafety ==
  [][(/\ last'.op = "load"
      /\ Len(last'.id) >= 1
      /\ last'.id[1] = "virtual:vanilla-extract:"
      /\ fileScopeIdOf(last'.id) \notin DOMAIN cssMap) =>
       /\ last'.res.kind = "throw"
       /\ cssMap' = cssMap]_vars

\* C4 witness: load failed for an unregistered scope while the registry held
\* other scopes.
C4_Witness ==
  /\ last.op = "load"
  /\ last.res.kind = "throw"
  /\ cssMap # EmptyMap
  /\ fileScopeIdOf(last.id) \notin DOMAIN cssMap

\* C5: load of the virtual module id of a registered scope returns exactly the
\* registry's CSS text of the scope when no dev server is attached, and with a
\* dev server attached a shim that makes exactly one immediate inject call,
\* with the registry's CSS text, and exactly one subscription, to the scope's
\* update channel.
C5_DevBuildDivergence ==
  \A f \in DOMAIN cssMap :
    (last.op = "load" /\ last.id = <<"virtual:vanilla-extract:">> \o f \o virtualExt) =>
      IF ~server
        THEN last.res = [kind |-> "css", body |-> cssMap[f]]
        ELSE /\ last.res.kind = "shim"
             /\ ShimProgram(last.res.body).injects = <<cssMap[f]>>
             /\ ShimProgram(last.res.body).subscriptions
                  = <<<<"vanilla-extract-style-update:">> \o f>>

\* C6: load of the virtual module id a transform emitted for a registered
\* scope f extracts exactly f and serves the registry entry of f.
C6_RoundTrip ==
  \A f \in DOMAIN cssMap :
    (last.op = "load" /\ last.id = <<"virtual:vanilla-extract:">> \o f \o virtualExt) =>
      /\ fileScopeIdOf(last.id) = f
      /\ last.res.kind \in {"css", "shim"}
      /\ last.res.kind = "css" => last.res.body = cssMap[f]
      /\ last.res.kind = "shim" => last.res.body = Shim(f, cssMap[f])

Max(S) == CHOOSE x \in S : \A y \in S : x >= y

\* C7: no step removes a registry entry; a run after `await compile` leaves
\* under each FlatScopeId its callback was called for the CSS text of the
\* last such call and every other entry as it was; no other step changes
\* the registry.
C7_LastWriteWins ==
  [][/\ DOMAIN cssMap \subseteq DOMAIN cssMap'
     /\ IF Resumed
          THEN \A key \in DOMAIN cssMap' \cup {FragmentId(fin', i) : i \in 1..fin'.k} :
                 LET calls == {i \in 1..fin'.k : FragmentId(fin', i) = key}
                 IN /\ key \in DOMAIN cssMap'
                    /\ IF calls # {}
                         THEN cssMap'[key] = fin'.source[Max(calls)].source
                         ELSE key \in DOMAIN cssMap /\ cssMap'[key] = cssMap[key]
          ELSE cssMap' = cssMap]_vars

\* C7 witness: a run overwrote an entry that held a different CSS text.
C7_Witness ==
  /\ last.op = "compileResolved"
  /\ broadcasts # <<>>
  /\ \E i \in 1..fin.k :
       /\ broadcasts[1].data = fin.source[i].source
       /\ FragmentId(fin, i) \in DOMAIN cssMap
       /\ cssMap[FragmentId(fin, i)] = fin.source[i].source

\* C8: once the configuration is resolved the extension never changes, and
\* whenever load or transform has run the extension is the JS variant exactly
\* if the dev server handle is set, the CSS variant exactly if it is not, and
\* a load that served content served the shim exactly under the JS variant.
C8_ExtensionMatchesServer ==
  [][/\ config # NoConfig => virtualExt' = virtualExt
     /\ last'.op \in {"load", "transform", "compileResolved", "compileRejected"} =>
          /\ virtualExt' = <<".vanilla", ".js">> <=> server'
          /\ virtualExt' = <<".vanilla", ".css">> <=> ~server'
          /\ (last'.op = "load" /\ last'.res.kind \in {"css", "shim"}) =>
               (last'.res.kind = "shim" <=> virtualExt' = <<".vanilla", ".js">>)]_vars

\* C8 witness: load served the shim under the JS extension.
C8_Witness ==
  /\ last.op = "load"
  /\ last.res.kind = "shim"
  /\ server
  /\ virtualExt = <<".vanilla", ".js">>

\* C9: resolveId returns its argument if the id starts with the reserved
\* prefix and nothing otherwise, and changes no state.
C9_ResolveId ==
  [][last'.op = "resolveId" =>
       /\ IF Len(last'.id) >= 1 /\ last'.id[1] = "virtual:vanilla-extract:"
            THEN last'.res = [kind |-> "id", body |-> last'.id]
            ELSE last'.res = [kind |-> "undefined", body |-> <<>>]
       /\ UNCHANGED <<identifiers, config, packageInfo, server, virtualExt, cssMap,
                      moduleGraph, invalidated, broadcasts, watched, pending,
                      compileCalls, fin>>]_vars

\* C9 witness: resolveId declined an id that holds the prefix after its start.
C9_Witness ==
  /\ last.op = "resolveId"
  /\ last.res.kind = "undefined"
  /\ \E i \in DOMAIN last.id : i > 1 /\ last.id[i] = "virtual:vanilla-extract:"

\* C10: a transform of a style file with the ssr flag set invokes no compiler,
\* leaves the registry, the watched files, the module graph and the
\* broadcasts and invalidations as they were, and returns the output of
\* addFileScope for the code and the file's path below the package directory.
C10_SsrTransform ==
  [][(last'.op = "transform" /\ last'.ssr /\ cssFileFilter(last'.id)) =>
       LET id == last'.id
           marks == {i \in DOMAIN id : id[i] = "?"}
           bare == IF marks = {} THEN id ELSE SubSeq(id, 1, Min(marks) - 1)
       IN /\ UNCHANGED <<cssMap, watched, moduleGraph, broadcasts, invalidated,
                         pending, compileCalls, fin>>
          /\ last'.res = [kind |-> "js",
                          body |-> addFileScope(last'.code, Tail(bare),
                                                getPackageInfo(Root))]]_vars

\* C10 witness: an ssr transform of a style file whose id carries a query ran
\* while the registry held entries.
C10_Witness ==
  /\ last.op = "transform"
  /\ last.ssr
  /\ last.res.kind = "js"
  /\ cssMap # EmptyMap
  /\ \E i \in DOMAIN last.id : last.id[i] = "?"

\* C11: after a run of the code after `await compile` in a dev server (the
\* command is not build), the watch targets the run registered do not hold
\* the file the run transformed, whatever the form of the module id, and
\* hold every other file the compiler reported.
C11_NoSelfWatch ==
  (fin # NoFin /\ config.command # "build") =>
    LET id == fin.id
        marks == {i \in DOMAIN id : id[i] = "?"}
        bare == IF marks = {} THEN id ELSE SubSeq(id, 1, Min(marks) - 1)
    IN /\ bare \notin Range(watched)
       /\ \A i \in DOMAIN fin.watchFiles :
            fin.watchFiles[i] # bare => fin.watchFiles[i] \in Range(watched)

\* C12: after a run of the code after `await compile` in a build (the command
\* is build), the watch targets the run registered are exactly the files of
\* the compiler's watchFiles, each one once and in order, the transformed
\* file included.
C12_BuildWatchesAll ==
  (fin # NoFin /\ config.command = "build") => watched = fin.watchFiles

\* C12 witness: a build run for an id that carries no query registered the
\* transformed file itself.
C12_Witness ==
  /\ config.command = "build"
  /\ last.op = "compileResolved"
  /\ fin.id = fin.validId
  /\ fin.id \in Range(fin.watchFiles)
  /\ fin.id \in Range(watched)

\* C13: the identifier-naming policy a run hands to the finalizer is the
\* configured override when one is configured; without an override it is
\* "short" exactly when the resolved mode is production and "debug" for every
\* other mode.
C13_IdentOption ==
  fin # NoFin =>
    /\ identifiers \in {"short", "debug"} => fin.identOption = identifiers
    /\ identifiers = "none" =>
         /\ config.mode = "production" => fin.identOption = "short"
         /\ config.mode # "production" => fin.identOption = "debug"

\* C13 witness: a run under production mode with the override "debug" handed
\* "debug" to the finalizer.
C13_Witness ==
  /\ last.op = "compileResolved"
  /\ identifiers = "debug"
  /\ config.mode = "production"
  /\ fin.identOption = "debug"

\* The entries of a log with the number of times each occurs.
BagOfSeq(log) == [x \in Range(log) |-> Cardinality({i \in DOMAIN log : log[i] = x})]

\* The FlatScopeIds of a list of fragments.
ScopeIdsOf(source) == {stringifyFileScope(source[i].fileScope) : i \in DOMAIN source}

\* The broadcasts of a log on the channel of a scope, as a multiset.
SendBag(log, fileId) ==
  BagOfSeq(SelectSeq(log, LAMBDA b : b.event = <<"vanilla-extract-style-update:">> \o fileId))

\* The invalidations of a log of the virtual module of a scope, as a multiset.
InvalidationBag(log, fileId) ==
  BagOfSeq(SelectSeq(log,
             LAMBDA x : x = <<"virtual:vanilla-extract:">> \o fileId \o virtualExt))

C15_NoRollback ==
  [][(Resumed /\ fin'.k < Len(fin'.source)) =>
       LET reached == {FragmentId(fin', i) : i \in 1..fin'.k}
       IN /\ last'.res.kind = "throw"
          /\ \A i \in 1..fin'.k :
               LET f == FragmentId(fin', i)
                   css == fin'.source[i].source
               IN /\ f \in DOMAIN cssMap'
                  /\ cssMap'[f] = css
                  /\ (server /\ f \in DOMAIN cssMap /\ cssMap[f] # css) =>
                       \E j \in DOMAIN broadcasts' :
                         broadcasts'[j]
                           = [type |-> "custom",
                              event |-> <<"vanilla-extract-style-update:">> \o f,
                              data |-> css]
          /\ \A i \in (fin'.k + 1)..Len(fin'.source) :
               LET f == FragmentId(fin', i)
               IN f \notin reached =>
                    /\ f \in DOMAIN cssMap' <=> f \in DOMAIN cssMap
                    /\ f \in DOMAIN cssMap => cssMap'[f] = cssMap[f]
                    /\ SendsFor(broadcasts', f) = {}]_vars

\* C15 witness: with a dev server attached a run over two registered scopes
\* failed after the first fragment: the broadcast of the first is sent, the
\* registry holds its new CSS text, and the entry of the second still holds
\* a CSS text that is not the one the run was handed for it.
C15_Witness ==
  /\ server
  /\ last.op = "compileResolved"
  /\ last.res.kind = "throw"
  /\ Len(fin.source) = 2
  /\ fin.k = 1
  /\ Len(broadcasts) = 1
  /\ broadcasts[1].data = fin.source[1].source
  /\ cssMap[FragmentId(fin, 1)] = fin.source[1].source
  /\ FragmentId(fin, 2) \in DOMAIN cssMap
  /\ cssMap[FragmentId(fin, 2)] # fin.source[2].source

\* C16: when the compiler invocation of a client transform fails, the
\* transform fails with the compiler's error, the compiler is not invoked
\* again and the transform is over, and the registry, the watch targets, the
\* module graph, the broadcasts and the invalidations are as they were.
C16_CompilerFailure ==
  [][last'.op = "compileRejected" =>
       /\ last'.res = [kind |-> "throw", body |-> <<"compiler error">>]
       /\ compileCalls' = compileCalls
       /\ BagCardinality(pending') = BagCardinality(pending) - 1
       /\ CopiesIn(last'.id, pending') = CopiesIn(last'.id, pending) - 1
       /\ UNCHANGED <<cssMap, watched, moduleGraph, broadcasts, invalidated, fin>>]_vars

\* C16 witness: the compiler failed for a transform while the registry held
\* entries and watch targets were registered.
C16_Witness ==
  /\ last.op = "compileRejected"
  /\ last.res.kind = "throw"
  /\ cssMap # EmptyMap
  /\ watched # <<>>
  /\ pending = EmptyBag

\* C17: every broadcast is sent on the channel 'vanilla-extract-style-update:'
\* followed by the FlatScopeId of a registered scope and carries the raw CSS
\* text registered for it, and the shim load serves with a dev server attached
\* for the virtual module id of a registered scope subscribes to exactly that
\* channel.
C17_ChannelAgreement ==
  /\ \A j \in DOMAIN broadcasts :
       \E f \in DOMAIN cssMap :
         /\ broadcasts[j].event = <<"vanilla-extract-style-update:">> \o f
         /\ broadcasts[j].data = cssMap[f]
  /\ \A f \in DOMAIN cssMap :
       (/\ server
        /\ last.op = "load"
        /\ last.id = <<"virtual:vanilla-extract:">> \o f \o virtualExt) =>
         /\ last.res.kind = "shim"
         /\ ShimProgram(last.res.body).subscriptions
              = <<<<"vanilla-extract-style-update:">> \o f>>

\* C18: in a dev server, once the browser that was served the shim of a scope
\* has evaluated it and has heard every broadcast sent since, the CSS text it
\* injected last is the registry's CSS text of the scope, whatever recompiles
\* ran since load returned the shim, those before the subscription included.
C18_ClientConvergence ==
  (client.phase = "subscribed" /\ client.heard = broadcasts) =>
    /\ client.scope \in DOMAIN cssMap
    /\ client.css = cssMap[client.scope]

\* The text is a shim whose immediate inject call is written with the JSON
\* text of the CSS text css.
InjectsTextOf(body, css) ==
  LET json == JsonString(css)
  IN \E a \in DOMAIN body :
       /\ body[a] = "inject("
       /\ a + Len(json) + 1 <= Len(body)
       /\ SubSeq(body, a + 1, a + Len(json)) = json
       /\ body[a + Len(json) + 1] = ");"

\* C19: the step that sends a broadcast with CSS text c for a scope also
\* leaves c as the scope's registry entry; no step other than a run after
\* `await compile` changes the registry; and with a dev server attached load
\* of the virtual module id of a registered scope returns a shim built from
\* the scope's registry entry of that moment.  So every load after the
\* broadcast of c is built from c or from a CSS text registered after it.
C19_NoStaleServe ==
  [][/\ Resumed =>
          \A j \in DOMAIN broadcasts' :
            \E f \in DOMAIN cssMap' :
              /\ broadcasts'[j].event = <<"vanilla-extract-style-update:">> \o f
              /\ cssMap'[f] = broadcasts'[j].data
              /\ f \in DOMAIN cssMap
              /\ cssMap[f] # cssMap'[f]
     /\ ~Resumed => cssMap' = cssMap /\ broadcasts' = broadcasts
     /\ \A f \in DOMAIN cssMap :
          (/\ server
           /\ last'.op = "load"
           /\ last'.id = <<"virtual:vanilla-extract:">> \o f \o virtualExt) =>
            /\ last'.res.kind = "shim"
            /\ InjectsTextOf(last'.res.body, cssMap[f])
            /\ \A c \in CssTexts \ {cssMap[f]} : ~InjectsTextOf(last'.res.body, c)]_vars

\* C19 witness: after a run that broadcast a changed CSS text for a scope,
\* load of the scope's virtual module returned a shim built from that text.
C19_Witness ==
  /\ server
  /\ last.op = "load"
  /\ last.res.kind = "shim"
  /\ broadcasts # <<>>
  /\ \E j \in DOMAIN broadcasts :
       \E f \in DOMAIN cssMap :
         /\ broadcasts[j].event = styleUpdateEvent(f)
         /\ last.id = VirtualId(f)
         /\ InjectsTextOf(last.res.body, broadcasts[j].data)

\* C20: load, whether it returns content, fails or returns null, and a
\* transform of a file that is no style file, which returns null, leave the
\* registry, the broadcasts, the invalidations, the watch targets and the
\* suspended transforms as they were and invoke no compiler; and a step that
\* changes the registry is a run after `await compile` whose callback ran.
C20_ReadOnlyResolver ==
  [][/\ last'.op = "load" =>
          /\ last'.res.kind \in {"css", "shim", "throw", "null"}
          /\ (last'.res.kind = "null" <=>
                ~(Len(last'.id) >= 1 /\ last'.id[1] = "virtual:vanilla-extract:"))
          /\ UNCHANGED <<cssMap, broadcasts, invalidated, watched, moduleGraph,
                         pending, compileCalls>>
     /\ (last'.op = "transform" /\ ~cssFileFilter(last'.id)) =>
          /\ last'.res = [kind |-> "null", body |-> <<>>]
          /\ UNCHANGED <<cssMap, broadcasts, invalidated, watched, moduleGraph,
                         pending, compileCalls>>
     /\ cssMap' # cssMap => (Resumed /\ fin'.k >= 1)]_vars

\* C20 witness: a transform of a file that is no style file returned null
\* while the registry held entries, watch targets were registered and the
\* most recent run had sent a broadcast.
C20_Witness ==
  /\ last.op = "transform"
  /\ last.res.kind = "null"
  /\ ~cssFileFilter(last.id)
  /\ cssMap # EmptyMap
  /\ watched # <<>>
  /\ broadcasts # <<>>

====
